---------------------------- MODULE Spec2Model ----------------------------
(***************************************************************************)
(* GstSyncClient (gst-libs/gst/sync-server/sync-client.c).                 *)
(*                                                                         *)
(* Three execution contexts run the client's code:                         *)
(*   "ctl"    the control client's notify::sync-info callback, which runs  *)
(*            update_sync_info once per received GstSyncServerInfo;         *)
(*   "watch"  the bus watch (gst_bus_add_watch), which runs bus_cb for     *)
(*            every message taken from the pipeline's bus;                 *)
(*   "stream" the pipeline thread that posts ASYNC_DONE, on which bus_cb   *)
(*            runs synchronously (sync-message::async-done).               *)
(* Each handler is cut into steps at the points where it takes info_lock,  *)
(* reads or writes seek_state / seek_offset outside the lock, or calls a   *)
(* pipeline function that can wait; the statements between two such points *)
(* are one step.                                                           *)
(*                                                                         *)
(* Clock times are in milliseconds (GST_MSECOND == 1).                     *)
(***************************************************************************)
EXTENDS Integers, Sequences, FiniteSets

\* ------------------------------------------------------------------ bounds
\* Width of GstClockTime in the model (guint64 in the program; TLC integers
\* are 32 bits wide, so the unsigned wrap-around is kept at a smaller width).
ClockTimeBits == 16
\* Seeks counted per run of update_pipeline; the count stops there.
MaxSeeks == 2

\* --------------------------------------------------------------- constants
GST_MSECOND == 1
DEFAULT_SEEK_TOLERANCE == 200 * GST_MSECOND

NEED_SEEK == "NEED_SEEK"
IN_SEEK == "IN_SEEK"
DONE_SEEK == "DONE_SEEK"
SeekStates == {NEED_SEEK, IN_SEEK, DONE_SEEK}

GstClockTimeModulus == 2 ^ ClockTimeBits
\* (GstClockTime) -1
GST_CLOCK_TIME_NONE == GstClockTimeModulus - 1
\* guint64 arithmetic of GstClockTime
ClockAdd(a, b) == (a + b) % GstClockTimeModulus
ClockSub(a, b) == (a - b) % GstClockTimeModulus

Contexts == {"ctl", "watch", "stream"}
NoInfo == [none |-> TRUE]
NoCycle == [none |-> TRUE]
NoMsg == [type |-> "NONE"]

\* ------------------------------------------------------------------ inputs
DefaultInfo ==
  [uri |-> "A", base_time |-> 1000, base_time_offset |-> 0, latency |-> 100,
   stopped |-> FALSE, paused |-> FALSE]
\* every value of the fields update_sync_info and update_pipeline read
AllInfos ==
  [uri : {"A", "B"}, base_time : {1000, 1100}, base_time_offset : {0, 50},
   latency : {100, 150}, stopped : BOOLEAN, paused : BOOLEAN]
\* The GstSyncServerInfo objects the control client delivers: every one of
\* AllInfos where handlers run one at a time (SpecSerial); where the three
\* contexts interleave (Spec), the four that differ in stopped and paused
\* and a playing one with another base_time.
SyncInfos ==
  {s \in AllInfos : /\ s.uri = DefaultInfo.uri
                    /\ s.latency = DefaultInfo.latency
                    /\ s.base_time_offset = DefaultInfo.base_time_offset
                    /\ s.base_time # DefaultInfo.base_time
                         => ~s.stopped /\ ~s.paused}

\* those of a stream that is not stopped
CycleInfos == {s \in SyncInfos : ~s.stopped}

\* values gst_clock_get_time can return at line 239
ClockTimes == {900, 1200, 1300}
\* values gst_element_query_position can store at line 283
Positions == {310}

GstStates == {"NULL", "READY", "PAUSED", "PLAYING"}
\* GStreamer changes state one step at a time
StateTransitions ==
  {<<"NULL", "READY">>, <<"READY", "PAUSED">>, <<"PAUSED", "PLAYING">>,
   <<"PLAYING", "PAUSED">>, <<"PAUSED", "READY">>, <<"READY", "NULL">>}
StateChangeReturns == {"FAILURE", "SUCCESS", "ASYNC", "NO_PREROLL"}

ElementMessages ==
  [type : {"ELEMENT"}, name : {"gst-netclock-statistics", "other"},
   synchronised : BOOLEAN]
StateChangedMessages ==
  {[type |-> "STATE_CHANGED", src |-> s, old |-> t[1], new |-> t[2]] :
     s \in {"pipeline", "child"}, t \in StateTransitions}
AsyncDoneMessage == [type |-> "ASYNC_DONE"]
EosMessages == [type : {"EOS"}, src : {"pipeline", "child"}]

\* --------------------------------------------------------------- variables
VARIABLES
  info,            \* self->info (NoInfo: NULL)
  info_lock,       \* holder of self->info_lock, or "none"
  synchronised,    \* self->synchronised
  seek_state,      \* self->seek_state
  seek_offset,     \* self->seek_offset
  pipeline_state,  \* state last requested with gst_element_set_state
  base_time,       \* value last given to gst_element_set_base_time
  pc,              \* per context: position in its handler
  old_info,        \* update_sync_info's old_info
  is_live,         \* update_pipeline's is_live, per context running it: the
                   \* values a read of it can give (BOOLEAN: not assigned)
  msg,             \* message the bus watch is handling
  now,             \* bus_cb's now (STATE_CHANGED case)
  issued,          \* per context: pipeline calls made by its current handler
  client,          \* self->client: "none", "started" or "stopped"
  cycle            \* history: since update_pipeline last ran, whether it took
                   \* the pipeline for live and the seeks made (NoCycle: not
                   \* recorded)

vars == <<info, info_lock, synchronised, seek_state, seek_offset,
          pipeline_state, base_time, pc, old_info, is_live, msg, now, issued,
          client, cycle>>

\* A call made on the pipeline: cmd names the function, str / val its argument.
Call(c, s, v) == [cmd |-> c, str |-> s, val |-> v]
SetState(s) == Call("set_state", s, 0)
SetBaseTime(t) == Call("set_base_time", "", t)
\* gst_element_seek_simple to position p and whether it returned TRUE
SeekSimple(ok, p) == Call("seek_simple", IF ok THEN "ok" ELSE "failed", p)
SetUri(u) == Call("set_uri", u, 0)
SetLatency(l) == Call("set_latency", "", l)
\* gst_element_query_position and what it returned
QueryPosition(ok, p) == Call("query_position", IF ok THEN "ok" ELSE "failed", p)

gst_sync_client_init ==
  /\ info = NoInfo
  /\ info_lock = "none"
  /\ synchronised = FALSE
  /\ seek_state = NEED_SEEK
  /\ seek_offset = 0
  /\ pipeline_state = "NULL"
  /\ base_time = 0
  /\ pc = [c \in Contexts |-> "idle"]
  /\ old_info = NoInfo
  /\ is_live = [c \in {"ctl", "watch"} |-> BOOLEAN]
  /\ msg = NoMsg
  /\ now = 0
  /\ issued = [c \in Contexts |-> <<>>]
  /\ client = "none"

\* the state after construction; no history of update_pipeline runs is kept
Init == gst_sync_client_init /\ cycle = NoCycle
\* the same, with the history kept
InitCycles == gst_sync_client_init /\ cycle = [live |-> FALSE, seeks |-> 0]


\* ----------------------------------------------------------------- helpers
\* issued with the calls appended to context c's list
Issue(c, calls) == [issued EXCEPT ![c] = @ \o calls]

\* The pipeline after the calls: the state last requested and the base time
\* last set.
CallsOf(calls, kind) == {i \in DOMAIN calls : calls[i].cmd = kind}
Last(S) == CHOOSE i \in S : \A j \in S : j <= i
StateAfter(calls) ==
  IF CallsOf(calls, "set_state") = {} THEN pipeline_state
  ELSE calls[Last(CallsOf(calls, "set_state"))].str
BaseTimeAfter(calls) ==
  IF CallsOf(calls, "set_base_time") = {} THEN base_time
  ELSE calls[Last(CallsOf(calls, "set_base_time"))].val

\* context c makes the calls on the pipeline
Perform(c, calls) ==
  /\ issued' = Issue(c, calls)
  /\ pipeline_state' = StateAfter(calls)
  /\ base_time' = BaseTimeAfter(calls)

\* What a step adds to the history: update_pipeline starting clears it, lines
\* 178-179 record whether seek_state was set for a live pipeline, and a call
\* of gst_element_seek_simple is counted.
CycleStep ==
  cycle' =
    IF cycle = NoCycle THEN cycle
    ELSE IF \E c \in {"ctl", "watch"} : pc[c] = "up_begin" /\ pc'[c] # "up_begin"
      THEN [live |-> FALSE, seeks |-> 0]
    ELSE IF \E c \in {"ctl", "watch"} : pc[c] = "up_seek" /\ pc'[c] = "up_play"
      THEN [cycle EXCEPT !.live = (seek_state' = DONE_SEEK)]
    ELSE IF \E i \in DOMAIN issued'["watch"] :
              /\ i > Len(issued["watch"])
              /\ issued'["watch"][i].cmd = "seek_simple"
      THEN [cycle EXCEPT !.seeks = IF @ < MaxSeeks THEN @ + 1 ELSE @]
    ELSE cycle

\* The streaming thread is outside bus_cb: gst_element_set_state(NULL) and a
\* flushing seek stop or flush the streaming thread and so wait for it to
\* leave the sync-message handler.
StreamQuiescent == pc["stream"] \in {"idle", "done"}

\* set_base_time: the value handed to gst_element_set_base_time
BaseTimeOf(i, offset) ==
  ClockAdd(ClockAdd(i.base_time, i.base_time_offset), offset)

\* DiffAction with the paused comparison made first
DiffAction_PausedFirst(old, new) ==
  IF old.paused # new.paused THEN "pause"
  ELSE IF old.stopped # new.stopped \/ old.uri # new.uri THEN "reset"
  ELSE IF old.base_time # new.base_time THEN "reset"
  ELSE "none"

\* DiffAction with a change of latency taken for a reason to reset
DiffAction_LatencyResets(old, new) ==
  IF old.stopped # new.stopped \/ old.uri # new.uri
     \/ old.latency # new.latency THEN "reset"
  ELSE IF old.paused # new.paused THEN "pause"
  ELSE IF old.base_time # new.base_time THEN "reset"
  ELSE "none"

\* update_sync_info, lines 350-373: what a changed sync info asks for
DiffAction(old, new) ==
  IF old.stopped # new.stopped \/ old.uri # new.uri THEN "reset"
  ELSE IF old.paused # new.paused THEN "pause"
  ELSE IF old.base_time # new.base_time THEN "reset"
  ELSE "none"

\* PausedCalls with set_base_time called on pausing too
PausedCalls_AlwaysBaseTime(new, offset) ==
  <<SetBaseTime(BaseTimeOf(new, offset)),
    SetState(IF new.paused THEN "PAUSED" ELSE "PLAYING")>>

\* update_sync_info, lines 360-366: the calls of the paused / unpaused branch
PausedCalls(new, offset) ==
  IF new.paused THEN <<SetState("PAUSED")>>
  ELSE <<SetBaseTime(BaseTimeOf(new, offset)), SetState("PLAYING")>>

\* update_pipeline, lines 148-152
ConfigureCalls(i) == <<SetUri(i.uri), SetLatency(i.latency)>>

\* PlayCalls with PLAYING requested before the base time is set
PlayCalls_PlayingFirst(i, offset) ==
  IF i.paused THEN <<>>
  ELSE <<SetState("PLAYING"), SetBaseTime(BaseTimeOf(i, offset))>>

\* update_pipeline, lines 183-186
PlayCalls(i, offset) ==
  IF i.paused THEN <<>>
  ELSE <<SetBaseTime(BaseTimeOf(i, offset)), SetState("PLAYING")>>

\* update_pipeline, lines 162-176: the values is_live can have after the
\* switch. FAILURE breaks out of the switch without assigning is_live, which
\* line 179 then reads.
IsLiveAfter(ret) ==
  CASE ret = "NO_PREROLL" -> {TRUE}
    [] ret = "FAILURE" -> BOOLEAN
    [] OTHER -> {FALSE}

\* ------------------------------------- gst_sync_client_start / _stop
\* The control client is created and started once and stopped once; it
\* delivers sync infos (notify::sync-info) between the two.
\* lines 585-605
gst_sync_client_start ==
  /\ client = "none"
  /\ client' = "started"
  /\ UNCHANGED <<info, info_lock, synchronised, seek_state, seek_offset,
                 pipeline_state, base_time, pc, old_info, is_live, msg, now,
                 issued, cycle>>

\* lines 615-618: gst_sync_control_client_stop and nothing else
gst_sync_client_stop ==
  /\ client = "started"
  /\ client' = "stopped"
  /\ UNCHANGED <<info, info_lock, synchronised, seek_state, seek_offset,
                 pipeline_state, base_time, pc, old_info, is_live, msg, now,
                 issued, cycle>>

\* ------------------------------------------------------- update_sync_info
\* First sync info: store it, create the net client clock, add the bus watch
\* and connect sync-message::async-done. No call is made on the pipeline.
update_sync_info_first(s) ==
  /\ client = "started"
  /\ pc["ctl"] = "idle"
  /\ info_lock = "none"
  /\ info = NoInfo
  /\ info' = s
  /\ pc' = [pc EXCEPT !["ctl"] = "done"]
  /\ UNCHANGED <<info_lock, synchronised, seek_state, seek_offset,
                 pipeline_state, base_time, old_info, is_live, msg, now, issued>>
  /\ UNCHANGED client
  /\ CycleStep

\* A later sync info: lock, swap self->info, and act on what changed. The
\* paused branch and the nothing-changed branch run to the unlock in this
\* step; the reset branches go on to set_state(NULL) with the lock held.
update_sync_info_changed(s) ==
  /\ client = "started"
  /\ pc["ctl"] = "idle"
  /\ info_lock = "none"
  /\ info # NoInfo
  /\ old_info' = info
  /\ info' = s
  /\ LET a == DiffAction(info, s) IN
     CASE a = "reset" ->
            /\ info_lock' = "ctl"
            /\ pc' = [pc EXCEPT !["ctl"] = "reset_null"]
            /\ UNCHANGED <<base_time, pipeline_state, issued>>
       [] a = "pause" ->
            /\ Perform("ctl", PausedCalls(s, seek_offset))
            /\ pc' = [pc EXCEPT !["ctl"] = "done"]
            /\ UNCHANGED info_lock
       [] OTHER ->
            /\ pc' = [pc EXCEPT !["ctl"] = "done"]
            /\ UNCHANGED <<info_lock, base_time, pipeline_state, issued>>
  /\ UNCHANGED <<synchronised, seek_state, seek_offset, is_live, msg, now>>
  /\ UNCHANGED client
  /\ CycleStep

\* lines 354 / 371: gst_element_set_state (pipeline, GST_STATE_NULL), then
\* update_pipeline
update_sync_info_reset ==
  /\ pc["ctl"] = "reset_null"
  /\ StreamQuiescent
  /\ Perform("ctl", <<SetState("NULL")>>)
  /\ pc' = [pc EXCEPT !["ctl"] = "up_begin"]
  /\ UNCHANGED <<info, info_lock, synchronised, seek_state, seek_offset,
                 old_info, is_live, msg, now>>
  /\ UNCHANGED client
  /\ CycleStep

\* -------------------------------------------------------- update_pipeline
\* Called with info_lock held by context c ("ctl" from update_sync_info,
\* "watch" from bus_cb's ELEMENT case). Returning, the caller unlocks.

\* lines 148-160: uri and latency; a stopped stream is set to NULL and done
update_pipeline_stopped(c) ==
  /\ pc[c] = "up_begin"
  /\ info.stopped
  /\ StreamQuiescent
  /\ Perform(c, ConfigureCalls(info) \o <<SetState("NULL")>>)
  /\ info_lock' = "none"
  /\ pc' = [pc EXCEPT ![c] = "done"]
  /\ UNCHANGED <<info, synchronised, seek_state, seek_offset, old_info,
                 is_live, msg, now>>
  /\ UNCHANGED client
  /\ CycleStep

\* lines 148-176: uri and latency; set_state(PAUSED) and its return value
update_pipeline_paused(c, ret) ==
  /\ pc[c] = "up_begin"
  /\ ~info.stopped
  /\ Perform(c, ConfigureCalls(info) \o <<SetState("PAUSED")>>)
  /\ is_live' = [is_live EXCEPT ![c] = IsLiveAfter(ret)]
  /\ pc' = [pc EXCEPT ![c] = "up_seek"]
  /\ UNCHANGED <<info, info_lock, synchronised, seek_state, seek_offset,
                 old_info, msg, now>>
  /\ UNCHANGED client
  /\ CycleStep

\* SeekStateFor with the pipeline never taken for live
SeekStateFor_NeverLive(live) == NEED_SEEK

\* line 179: is_live ? DONE_SEEK : NEED_SEEK
SeekStateFor(live) == IF live THEN DONE_SEEK ELSE NEED_SEEK

\* lines 178-179: seek_offset = 0; seek_state = is_live ? DONE_SEEK : NEED_SEEK
update_pipeline_seek_state(c) ==
  /\ pc[c] = "up_seek"
  /\ seek_offset' = 0
  /\ \E live \in is_live[c] : seek_state' = SeekStateFor(live)
  /\ pc' = [pc EXCEPT ![c] = "up_play"]
  /\ UNCHANGED <<info, info_lock, synchronised, pipeline_state, base_time,
                 old_info, is_live, msg, now, issued>>
  /\ UNCHANGED client
  /\ CycleStep

\* lines 183-188: unless paused, set_base_time and set_state(PLAYING); return
update_pipeline_play(c) ==
  /\ pc[c] = "up_play"
  /\ Perform(c, PlayCalls(info, seek_offset))
  /\ info_lock' = "none"
  /\ pc' = [pc EXCEPT ![c] = "done"]
  /\ UNCHANGED <<info, synchronised, seek_state, seek_offset, old_info,
                 is_live, msg, now>>
  /\ UNCHANGED client
  /\ CycleStep

\* a handler returns: its locals go away
handler_return(c) ==
  /\ pc[c] = "done"
  /\ pc' = [pc EXCEPT ![c] = "idle"]
  /\ issued' = [issued EXCEPT ![c] = <<>>]
  /\ old_info' = IF c = "ctl" THEN NoInfo ELSE old_info
  /\ is_live' = IF c \in DOMAIN is_live
                  THEN [is_live EXCEPT ![c] = BOOLEAN] ELSE is_live
  /\ msg' = IF c = "watch" THEN NoMsg ELSE msg
  /\ now' = IF c = "watch" THEN 0 ELSE now
  /\ UNCHANGED <<info, info_lock, synchronised, seek_state, seek_offset,
                 pipeline_state, base_time>>
  /\ UNCHANGED client
  /\ CycleStep

\* ------------------------------------------------- bus_cb, ELEMENT message
\* lines 200-205: already synchronised, or not the net clock's statistics
\* StatisticsIgnored without the check of self->synchronised (line 200)
StatisticsIgnored_NoSynchronisedCheck(m) ==
  m.name # "gst-netclock-statistics"

StatisticsIgnored(m) ==
  synchronised \/ m.name # "gst-netclock-statistics"

\* lines 200-209: an ignored message breaks; otherwise self->synchronised
\* takes the message's field.
bus_cb_element(m) ==
  /\ pc["watch"] = "idle"
  /\ info # NoInfo
  /\ msg' = m
  /\ IF StatisticsIgnored(m)
       THEN /\ pc' = [pc EXCEPT !["watch"] = "done"]
            /\ UNCHANGED synchronised
       ELSE /\ synchronised' = m.synchronised
            /\ pc' = [pc EXCEPT !["watch"] =
                        IF m.synchronised THEN "wait_sync" ELSE "done"]
  /\ UNCHANGED <<info, info_lock, seek_state, seek_offset, pipeline_state,
                 base_time, old_info, is_live, now, issued>>
  /\ UNCHANGED client
  /\ CycleStep

\* lines 211-215: gst_clock_wait_for_sync (clock, 10 s) returns ok
bus_cb_wait_for_sync(ok) ==
  /\ pc["watch"] = "wait_sync"
  /\ IF ok
       THEN /\ pc' = [pc EXCEPT !["watch"] = "element_lock"]
            /\ UNCHANGED synchronised
       ELSE /\ synchronised' = FALSE
            /\ pc' = [pc EXCEPT !["watch"] = "done"]
  /\ UNCHANGED <<info, info_lock, seek_state, seek_offset, pipeline_state,
                 base_time, old_info, is_live, msg, now, issued>>
  /\ UNCHANGED client
  /\ CycleStep

\* line 219: g_mutex_lock, then update_pipeline
bus_cb_element_lock ==
  /\ pc["watch"] = "element_lock"
  /\ info_lock = "none"
  /\ info_lock' = "watch"
  /\ pc' = [pc EXCEPT !["watch"] = "up_begin"]
  /\ UNCHANGED <<info, synchronised, seek_state, seek_offset, pipeline_state,
                 base_time, old_info, is_live, msg, now, issued>>
  /\ UNCHANGED client
  /\ CycleStep

\* -------------------------------------------- bus_cb, STATE_CHANGED message
\* line 236: the message goes on unless this holds
StateChangeIgnored(m) == m.old # "PAUSED" /\ m.new # "PLAYING"

\* lines 230-237
bus_cb_state_changed(m) ==
  /\ pc["watch"] = "idle"
  /\ info # NoInfo
  /\ msg' = m
  /\ pc' = [pc EXCEPT !["watch"] =
              IF seek_state # NEED_SEEK \/ m.src # "pipeline"
                 \/ StateChangeIgnored(m)
                THEN "done" ELSE "set_in_seek"]
  /\ UNCHANGED <<info, info_lock, synchronised, seek_state, seek_offset,
                 pipeline_state, base_time, old_info, is_live, now, issued>>
  /\ UNCHANGED client
  /\ CycleStep

\* lines 239-240: now = gst_clock_get_time; seek_state = IN_SEEK
bus_cb_in_seek(t) ==
  /\ pc["watch"] = "set_in_seek"
  /\ now' = t
  /\ seek_state' = IN_SEEK
  /\ pc' = [pc EXCEPT !["watch"] = "seek_lock"]
  /\ UNCHANGED <<info, info_lock, synchronised, seek_offset, pipeline_state,
                 base_time, old_info, is_live, msg, issued>>
  /\ UNCHANGED client
  /\ CycleStep

\* line 242
bus_cb_seek_lock ==
  /\ pc["watch"] = "seek_lock"
  /\ info_lock = "none"
  /\ info_lock' = "watch"
  /\ pc' = [pc EXCEPT !["watch"] = "seek"]
  /\ UNCHANGED <<info, synchronised, seek_state, seek_offset, pipeline_state,
                 base_time, old_info, is_live, msg, now, issued>>
  /\ UNCHANGED client
  /\ CycleStep

\* lines 244-246
CurPos(t, i) == ClockSub(ClockSub(t, i.base_time), i.base_time_offset)
\* line 248
SeekNeeded(cur_pos) == cur_pos > DEFAULT_SEEK_TOLERANCE

\* SeekStateAfterSeek with a failed seek left in IN_SEEK
SeekStateAfterSeek_FailureIgnored(ok, s) == s

\* lines 252-258: a seek that could not be performed stores DONE_SEEK
SeekStateAfterSeek(ok, s) == IF ok THEN s ELSE DONE_SEEK

\* lines 248-259 and 266: beyond the tolerance, gst_element_seek_simple
\* (flushing) returns ok
bus_cb_seek(ok) ==
  /\ pc["watch"] = "seek"
  /\ SeekNeeded(CurPos(now, info))
  /\ StreamQuiescent
  /\ Perform("watch", <<SeekSimple(ok, CurPos(now, info))>>)
  /\ seek_state' = SeekStateAfterSeek(ok, seek_state)
  /\ info_lock' = "none"
  /\ pc' = [pc EXCEPT !["watch"] = "done"]
  /\ UNCHANGED <<info, synchronised, seek_offset, old_info, is_live, msg, now>>
  /\ UNCHANGED client
  /\ CycleStep

\* lines 260-266: within the tolerance, no seek
bus_cb_no_seek ==
  /\ pc["watch"] = "seek"
  /\ ~SeekNeeded(CurPos(now, info))
  /\ seek_state' = DONE_SEEK
  /\ info_lock' = "none"
  /\ pc' = [pc EXCEPT !["watch"] = "done"]
  /\ UNCHANGED <<info, synchronised, seek_offset, pipeline_state, base_time,
                 old_info, is_live, msg, now, issued>>
  /\ UNCHANGED client
  /\ CycleStep

\* ----------------------------------------------- bus_cb, ASYNC_DONE message
\* The message is handled on the streaming thread as it is posted
\* (sync-message::async-done; streaming threads run unless the pipeline was
\* set to NULL) and again by the bus watch.
\* line 279
bus_cb_async_done(c) ==
  /\ c \in {"watch", "stream"}
  /\ pc[c] = "idle"
  /\ info # NoInfo
  /\ c = "stream" => pipeline_state # "NULL"
  /\ msg' = IF c = "watch" THEN AsyncDoneMessage ELSE msg
  /\ pc' = [pc EXCEPT ![c] = IF seek_state # IN_SEEK THEN "done" ELSE "query"]
  /\ UNCHANGED <<info, info_lock, synchronised, seek_state, seek_offset,
                 pipeline_state, base_time, old_info, is_live, now, issued>>
  /\ UNCHANGED client
  /\ CycleStep

\* lines 282-283: gst_element_query_position stores p in self->seek_offset
bus_cb_query_position(c, p) ==
  /\ pc[c] = "query"
  /\ Perform(c, <<QueryPosition(TRUE, p)>>)
  /\ seek_offset' = p
  /\ pc' = [pc EXCEPT ![c] = "base_time_lock"]
  /\ UNCHANGED <<info, info_lock, synchronised, seek_state, old_info, is_live,
                 msg, now>>
  /\ UNCHANGED client
  /\ CycleStep

\* line 283 passes &self->seek_offset as the query's result location. What a
\* failed query leaves there is up to gst_element_query_position: the value
\* it found, or GST_CLOCK_TIME_NONE written before the query was made.
QueryFailureLeaves(offset) == {offset, GST_CLOCK_TIME_NONE}

\* line 282: the query fails
bus_cb_query_failed(c) ==
  /\ pc[c] = "query"
  /\ Perform(c, <<QueryPosition(FALSE, 0)>>)
  /\ seek_offset' \in QueryFailureLeaves(seek_offset)
  /\ pc' = [pc EXCEPT ![c] = "done_seek"]
  /\ UNCHANGED <<info, info_lock, synchronised, seek_state, old_info, is_live,
                 msg, now>>
  /\ UNCHANGED client
  /\ CycleStep

\* lines 286-288: lock, set_base_time, unlock
bus_cb_set_base_time(c) ==
  /\ pc[c] = "base_time_lock"
  /\ info_lock = "none"
  /\ Perform(c, <<SetBaseTime(BaseTimeOf(info, seek_offset))>>)
  /\ pc' = [pc EXCEPT ![c] = "done_seek"]
  /\ UNCHANGED <<info, info_lock, synchronised, seek_state, seek_offset,
                 old_info, is_live, msg, now>>
  /\ UNCHANGED client
  /\ CycleStep

\* line 291
bus_cb_done_seek(c) ==
  /\ pc[c] = "done_seek"
  /\ seek_state' = DONE_SEEK
  /\ pc' = [pc EXCEPT ![c] = "done"]
  /\ UNCHANGED <<info, info_lock, synchronised, seek_offset, pipeline_state,
                 base_time, old_info, is_live, msg, now, issued>>
  /\ UNCHANGED client
  /\ CycleStep

\* ------------------------------------------------------ bus_cb, EOS message
\* lines 296-300
bus_cb_eos(m) ==
  /\ pc["watch"] = "idle"
  /\ info # NoInfo
  /\ msg' = m
  /\ IF m.src = "pipeline"
       THEN /\ StreamQuiescent
            /\ Perform("watch", <<SetState("NULL")>>)
       ELSE UNCHANGED <<pipeline_state, base_time, issued>>
  /\ pc' = [pc EXCEPT !["watch"] = "done"]
  /\ UNCHANGED <<info, info_lock, synchronised, seek_state, seek_offset,
                 old_info, is_live, now>>
  /\ UNCHANGED client
  /\ CycleStep

\* ------------------------------------------------------------ specification
AllIdle == \A c \in Contexts : pc[c] = "idle"

\* The contexts interleave step by step while the control client runs.
Next ==
  \/ gst_sync_client_start
  \/ \E s \in SyncInfos : update_sync_info_first(s)
  \/ \E s \in SyncInfos : update_sync_info_changed(s)
  \/ update_sync_info_reset
  \/ \E c \in {"ctl", "watch"} : update_pipeline_stopped(c)
  \/ \E c \in {"ctl", "watch"}, ret \in StateChangeReturns :
       update_pipeline_paused(c, ret)
  \/ \E c \in {"ctl", "watch"} : update_pipeline_seek_state(c)
  \/ \E c \in {"ctl", "watch"} : update_pipeline_play(c)
  \/ \E m \in ElementMessages : bus_cb_element(m)
  \/ \E ok \in BOOLEAN : bus_cb_wait_for_sync(ok)
  \/ bus_cb_element_lock
  \/ \E m \in StateChangedMessages : bus_cb_state_changed(m)
  \/ \E t \in ClockTimes : bus_cb_in_seek(t)
  \/ bus_cb_seek_lock
  \/ \E ok \in BOOLEAN : bus_cb_seek(ok)
  \/ bus_cb_no_seek
  \/ \E c \in {"watch", "stream"} : bus_cb_async_done(c)
  \/ \E c \in {"watch", "stream"}, p \in Positions : bus_cb_query_position(c, p)
  \/ \E c \in {"watch", "stream"} : bus_cb_query_failed(c)
  \/ \E c \in {"watch", "stream"} : bus_cb_set_base_time(c)
  \/ \E c \in {"watch", "stream"} : bus_cb_done_seek(c)
  \/ \E m \in EosMessages : bus_cb_eos(m)
  \/ \E c \in Contexts : handler_return(c)

Spec == Init /\ [][Next]_vars
\* The same steps with the history of update_pipeline runs kept, for the
\* sync infos of a stream that is not stopped (update_pipeline never takes
\* the stopped branch).
NextCycles ==
  \/ gst_sync_client_start
  \/ \E s \in CycleInfos : update_sync_info_first(s)
  \/ \E s \in CycleInfos : update_sync_info_changed(s)
  \/ update_sync_info_reset
  \/ \E c \in {"ctl", "watch"}, ret \in StateChangeReturns :
       update_pipeline_paused(c, ret)
  \/ \E c \in {"ctl", "watch"} : update_pipeline_seek_state(c)
  \/ \E c \in {"ctl", "watch"} : update_pipeline_play(c)
  \/ \E m \in ElementMessages : bus_cb_element(m)
  \/ \E ok \in BOOLEAN : bus_cb_wait_for_sync(ok)
  \/ bus_cb_element_lock
  \/ \E m \in StateChangedMessages : bus_cb_state_changed(m)
  \/ \E t \in ClockTimes : bus_cb_in_seek(t)
  \/ bus_cb_seek_lock
  \/ \E ok \in BOOLEAN : bus_cb_seek(ok)
  \/ bus_cb_no_seek
  \/ \E c \in {"watch", "stream"} : bus_cb_async_done(c)
  \/ \E c \in {"watch", "stream"}, p \in Positions : bus_cb_query_position(c, p)
  \/ \E c \in {"watch", "stream"} : bus_cb_query_failed(c)
  \/ \E c \in {"watch", "stream"} : bus_cb_set_base_time(c)
  \/ \E c \in {"watch", "stream"} : bus_cb_done_seek(c)
  \/ \E m \in EosMessages : bus_cb_eos(m)
  \/ \E c \in Contexts : handler_return(c)

SpecCycles == InitCycles /\ [][NextCycles]_vars

\* Each handler runs to its return before another is entered, and the control
\* client delivers any of AllInfos.
NextSerial ==
  \/ gst_sync_client_start
  \/ AllIdle /\ gst_sync_client_stop
  \/ \E s \in AllInfos : AllIdle /\ update_sync_info_first(s)
  \/ \E s \in AllInfos : AllIdle /\ update_sync_info_changed(s)
  \/ update_sync_info_reset
  \/ \E c \in {"ctl", "watch"} : update_pipeline_stopped(c)
  \/ \E c \in {"ctl", "watch"}, ret \in StateChangeReturns :
       update_pipeline_paused(c, ret)
  \/ \E c \in {"ctl", "watch"} : update_pipeline_seek_state(c)
  \/ \E c \in {"ctl", "watch"} : update_pipeline_play(c)
  \/ \E m \in ElementMessages : AllIdle /\ bus_cb_element(m)
  \/ \E ok \in BOOLEAN : bus_cb_wait_for_sync(ok)
  \/ bus_cb_element_lock
  \/ \E m \in StateChangedMessages : AllIdle /\ bus_cb_state_changed(m)
  \/ \E t \in ClockTimes : bus_cb_in_seek(t)
  \/ bus_cb_seek_lock
  \/ \E ok \in BOOLEAN : bus_cb_seek(ok)
  \/ bus_cb_no_seek
  \/ \E c \in {"watch", "stream"} : AllIdle /\ bus_cb_async_done(c)
  \/ \E c \in {"watch", "stream"}, p \in Positions : bus_cb_query_position(c, p)
  \/ \E c \in {"watch", "stream"} : bus_cb_query_failed(c)
  \/ \E c \in {"watch", "stream"} : bus_cb_set_base_time(c)
  \/ \E c \in {"watch", "stream"} : bus_cb_done_seek(c)
  \/ \E m \in EosMessages : AllIdle /\ bus_cb_eos(m)
  \/ \E c \in Contexts : handler_return(c)

SpecSerial == Init /\ [][NextSerial]_vars

\* Scheduling. A context that is inside a handler goes on to the handler's
\* next statement: the GLib main loop, the control client's thread and the
\* streaming thread each run their handler to its return, and a
\* g_mutex_lock returns once info_lock is free when it is tried.
Progress(c) == pc[c] # "idle" /\ Next /\ pc'[c] # pc[c]
\* The pipeline posts ASYNC_DONE for a seek it accepted, and bus_cb takes
\* the message at line 271 while seek_state is IN_SEEK.
SeekCompleted ==
  /\ seek_state = IN_SEEK
  /\ \E c \in {"watch", "stream"} : bus_cb_async_done(c)
Fairness ==
  /\ \A c \in Contexts : SF_vars(Progress(c))
  /\ SF_vars(SeekCompleted)
\* The interleaved contexts under fair scheduling.
SpecLive == Init /\ [][Next]_vars /\ Fairness

\* ------------------------------------------------------------------ claims
InfoFields ==
  {"uri", "base_time", "base_time_offset", "latency", "stopped", "paused"}
\* sync infos o and n agree on every field outside fields
SameExcept(o, n, fields) == \A f \in InfoFields \ fields : o[f] = n[f]

\* a step in which update_sync_info is entered with a sync info already held
ApplyStep == pc["ctl"] = "idle" /\ pc'["ctl"] # "idle" /\ info # NoInfo
\* update_sync_info has run to its unlock on a sync info that replaced old_info
Applied == pc["ctl"] = "done" /\ old_info # NoInfo

\* C1: applying a sync info that differs from the current one at most in
\* latency makes no call on the pipeline (no state change, no seek, no base
\* time) and leaves seek_state and seek_offset alone; update_sync_info
\* returns in that step, having only replaced self->info.
C1_NoOpDiffStability ==
  [][(ApplyStep /\ SameExcept(info, info', {"latency"}))
       => /\ pc'["ctl"] = "done"
          /\ issued'["ctl"] = <<>>
          /\ UNCHANGED <<pipeline_state, base_time, seek_state, seek_offset>>]_vars

\* a sync info that changed only the latency was applied to a playing pipeline
C1_Witness ==
  /\ Applied
  /\ SameExcept(old_info, info, {"latency"})
  /\ old_info.latency # info.latency
  /\ pipeline_state = "PLAYING"
  /\ issued["ctl"] = <<>>

\* C7: applying a sync info that differs from the current one only by paused
\* going from false to true makes exactly one call on the pipeline,
\* set_state(PAUSED): no NULL, no PLAYING, no seek, no base time; seek_state
\* and seek_offset are unchanged.
C7_PauseOnly ==
  [][(ApplyStep /\ SameExcept(info, info', {"paused"})
        /\ ~info.paused /\ info'.paused)
       => /\ pc'["ctl"] = "done"
          /\ issued'["ctl"] = <<SetState("PAUSED")>>
          /\ pipeline_state' = "PAUSED"
          /\ UNCHANGED <<base_time, seek_state, seek_offset>>]_vars

\* a playing stream whose base time was corrected by a seek was paused
C7_Witness ==
  /\ Applied
  /\ SameExcept(old_info, info, {"paused"})
  /\ ~old_info.paused /\ info.paused /\ ~info.stopped
  /\ issued["ctl"] = <<SetState("PAUSED")>>
  /\ seek_offset \in Positions
  /\ base_time = BaseTimeOf(info, seek_offset)

\* the states requested with set_state by context c's current handler
StateCallsOf(c) == {issued[c][i].str : i \in CallsOf(issued[c], "set_state")}
\* the calls context c makes in a step
NewCalls(c) == SubSeq(issued'[c], Len(issued[c]) + 1, Len(issued'[c]))
StartsPlayback(call) ==
  call.cmd = "set_state" /\ call.str \in {"PAUSED", "PLAYING"}

\* C2: once update_sync_info has applied a sync info in which stopped went
\* from false to true, the state last requested of the pipeline is NULL and
\* that apply requested no other state (no PAUSED, no PLAYING), whatever
\* paused was and is.
C2_StoppedReachesNull ==
  (Applied /\ ~old_info.stopped /\ info.stopped)
    => /\ pipeline_state = "NULL"
       /\ StateCallsOf("ctl") = {"NULL"}

\* stopped went from false to true while paused went from true to false
C2_Witness ==
  /\ Applied
  /\ ~old_info.stopped /\ info.stopped
  /\ old_info.paused /\ ~info.paused
  /\ StateCallsOf("ctl") = {"NULL"}

\* C10: while the sync info held is stopped, update_sync_info and the
\* ELEMENT case's update_pipeline request neither PAUSED nor PLAYING and set
\* no base time, also when stopped is true before and after and only paused
\* changes.
C10_StoppedPrecedence ==
  [][\A c \in {"ctl", "watch"} :
       (info' # NoInfo /\ info'.stopped /\ (c = "watch" => msg'.type = "ELEMENT"))
         => \A i \in DOMAIN NewCalls(c) :
              /\ ~StartsPlayback(NewCalls(c)[i])
              /\ NewCalls(c)[i].cmd # "set_base_time"]_vars

\* the clock is known to be synchronised: gst_clock_wait_for_sync succeeded
Confirmed == synchronised /\ pc["watch"] # "wait_sync"

\* C8: no handler requests PAUSED or PLAYING unless the clock has been
\* confirmed synchronised.
C8_PlaybackGated ==
  \A c \in Contexts :
    (\E i \in DOMAIN issued[c] : StartsPlayback(issued[c][i])) => Confirmed

\* C9 as claimed: synchronised never goes from true to false.
C9_Monotone == [][synchronised => synchronised']_vars

\* C9 as amended: synchronised becomes true only in the ELEMENT case, from a
\* statistics message that reports synchronised; it becomes false again only
\* when gst_clock_wait_for_sync fails in that same handler; once the wait has
\* succeeded it stays true.
C9_MonotoneOnceConfirmed ==
  [][/\ Confirmed => synchronised'
     /\ (synchronised /\ ~synchronised')
          => (pc["watch"] = "wait_sync" /\ pc'["watch"] = "done")
     /\ (~synchronised /\ synchronised')
          => /\ pc["watch"] = "idle" /\ pc'["watch"] = "wait_sync"
             /\ msg'.type = "ELEMENT" /\ msg'.synchronised]_vars

\* with the clock confirmed synchronised, a statistics message that reports
\* it unsynchronised has been handled
C9_Witness ==
  /\ pc["watch"] = "done"
  /\ msg.type = "ELEMENT"
  /\ msg.name = "gst-netclock-statistics"
  /\ ~msg.synchronised
  /\ synchronised
  /\ pipeline_state = "PLAYING"

\* C3: when bus_cb has handled the PAUSED -> PLAYING message from NEED_SEEK
\* through to its unlock, it has called gst_element_seek_simple if and only
\* if now - base_time - base_time_offset is greater than 200 ms; at or below
\* 200 ms seek_state ends at DONE_SEEK and neither seek_offset nor the base
\* time is touched.
C3_SeekIffBeyondTolerance ==
  [][(pc["watch"] = "seek" /\ pc'["watch"] = "done"
        /\ msg.old = "PAUSED" /\ msg.new = "PLAYING")
       => LET position == now - info.base_time - info.base_time_offset
              seeks == CallsOf(NewCalls("watch"), "seek_simple")
          IN /\ (seeks # {}) <=> (position > 200 * GST_MSECOND)
             /\ (position <= 200 * GST_MSECOND)
                  => /\ seek_state' = DONE_SEEK
                     /\ UNCHANGED <<seek_offset, base_time>>]_vars

\* the position the query of context c's current handler returned
Queried(c) == issued[c][Last(CallsOf(issued[c], "query_position"))].val

\* C4: in the ASYNC_DONE case taken in IN_SEEK, once the position query has
\* returned p, the step that sets the base time hands the pipeline
\* base_time + base_time_offset + p of the sync info held and leaves
\* seek_offset = p; and applying a sync info equal to the one held makes no
\* call on the pipeline.
C4_SeekOffsetFolded ==
  [][/\ \A c \in {"watch", "stream"} :
          (pc[c] = "base_time_lock" /\ pc'[c] = "done_seek")
            => /\ seek_offset' = Queried(c)
               /\ base_time' = BaseTimeOf(info', Queried(c))
     /\ (ApplyStep /\ info' = info)
          => /\ issued'["ctl"] = <<>>
             /\ UNCHANGED <<pipeline_state, base_time>>]_vars

\* a step of bus_cb's STATE_CHANGED or ASYNC_DONE case
StatusHandlerStep ==
  \E c \in {"watch", "stream"} :
    /\ pc[c] \in {"set_in_seek", "seek_lock", "seek", "query",
                  "base_time_lock", "done_seek"}
    /\ pc'[c] # pc[c]

\* C5: whenever a step of a status-event handler changes seek_state, the
\* change is NEED_SEEK -> IN_SEEK or IN_SEEK -> DONE_SEEK.
C5_HandlerTransitions ==
  [][(StatusHandlerStep /\ seek_state' # seek_state)
       => <<seek_state, seek_state'>> \in
            {<<NEED_SEEK, IN_SEEK>>, <<IN_SEEK, DONE_SEEK>>}]_vars

\* C6: (1) a STATE_CHANGED message taken when seek_state is not NEED_SEEK, or
\* not from the pipeline, or for a transition other than PAUSED -> PLAYING,
\* and (2) an ASYNC_DONE message taken when seek_state is not IN_SEEK, make
\* bus_cb break at once: seek_state, seek_offset and the base time are
\* unchanged and no call is made on the pipeline.
C6_MismatchIsNoOp ==
  [][\A c \in {"watch", "stream"} :
       (/\ pc[c] = "idle" /\ pc'[c] # "idle"
        /\ \/ /\ c = "watch" /\ msg'.type = "STATE_CHANGED"
              /\ \/ seek_state # NEED_SEEK
                 \/ msg'.src # "pipeline"
                 \/ <<msg'.old, msg'.new>> # <<"PAUSED", "PLAYING">>
           \/ /\ c = "stream" \/ msg'.type = "ASYNC_DONE"
              /\ seek_state # IN_SEEK)
         => /\ pc'[c] = "done"
            /\ UNCHANGED <<seek_state, seek_offset, base_time, issued>>]_vars

\* context c's current handler has had a position query answered
QueryAnswered(c) ==
  \E i \in CallsOf(issued[c], "query_position") : issued[c][i].str = "ok"

\* C11: once update_sync_info has applied a sync info that is neither stopped
\* nor paused and whose base_time or base_time_offset differs from the one it
\* replaced, and once the ASYNC_DONE case has stored a queried position in
\* seek_offset, the base time last given to the pipeline is base_time +
\* base_time_offset + seek_offset of the sync info held; this includes a sync
\* info that changes base_time_offset alone.
C11_BaseTimeTracksInputs ==
  /\ (/\ Applied
      /\ ~info.stopped /\ ~info.paused
      /\ \/ old_info.base_time # info.base_time
         \/ old_info.base_time_offset # info.base_time_offset)
       => base_time = BaseTimeOf(info, seek_offset)
  /\ \A c \in {"watch", "stream"} :
       (pc[c] = "done" /\ QueryAnswered(c))
         => base_time = BaseTimeOf(info, seek_offset)

\* self->clock is set: created at line 322, unreferenced in dispose only
ClockHeld == info # NoInfo
\* bus_cb is attached to the bus: lines 331-335, never removed
HandlersAttached == info # NoInfo

\* a step of bus_cb in context c that changes neither seek_state, seek_offset
\* nor the base time and makes no seek, set_state or set_base_time call
SilentStep(c) ==
  pc'[c] # pc[c]
    => /\ UNCHANGED <<seek_state, seek_offset, base_time>>
       /\ \A i \in DOMAIN NewCalls(c) :
            NewCalls(c)[i].cmd \notin
              {"seek_simple", "set_state", "set_base_time"}

\* C12: after gst_sync_client_stop no step of bus_cb, on the bus watch or on
\* the streaming thread, changes seek_state, seek_offset or the pipeline's
\* base time or makes a seek, set_state or set_base_time call; and with the
\* client stopped the net client clock has been released and bus_cb is no
\* longer attached to the bus.
C12_StopSilencesHandlers ==
  [][client' = "stopped"
       => /\ \A c \in {"watch", "stream"} : SilentStep(c)
          /\ ~ClockHeld'
          /\ ~HandlersAttached']_vars

\* In context c's update_pipeline, set_state(PAUSED) returned FAILURE: the
\* only case of the switch that leaves is_live unassigned.
PausedFailed(c) == pc[c] \in {"up_seek", "up_play"} /\ is_live[c] = BOOLEAN

\* C13: when set_state(PAUSED) has returned FAILURE in update_pipeline, the
\* rest of update_pipeline calls neither set_base_time nor set_state(PLAYING),
\* also for a sync info that is not paused, and the value it stores in
\* seek_state comes from an is_live that was assigned.
C13_FailureLeavesStopped ==
  [][\A c \in {"ctl", "watch"} :
       /\ (PausedFailed(c) /\ pc'[c] # pc[c]) => NewCalls(c) = <<>>
       /\ (pc[c] = "up_seek" /\ pc'[c] # pc[c]) => Cardinality(is_live[c]) = 1]_vars

\* the state requests and base-time updates of context c's current handler,
\* in the order made
IsCommand(call) == call.cmd \in {"set_state", "set_base_time"}
CommandSeq(c) ==
  LET f == SelectSeq(issued[c], IsCommand)
  IN [i \in 1..Len(f) |-> <<f[i].cmd, f[i].str>>]
UnpauseSeq == <<<<"set_base_time", "">>, <<"set_state", "PLAYING">>>>

\* C14: update_sync_info applied to a sync info that changes stopped or uri,
\* or changes base_time with stopped, uri and paused equal, requests NULL
\* first, then for a stream that is not stopped PAUSED, then only if it is not
\* paused sets the base time and requests PLAYING, in that order. With stopped
\* and uri equal and paused changed, whatever base_time did, only the paused
\* branch runs: PAUSED alone, or the base time and PLAYING, and no NULL.
C14_ResetOrder ==
  Applied =>
    LET o == old_info
        n == info
        reset == \/ o.stopped # n.stopped
                 \/ o.uri # n.uri
                 \/ (o.paused = n.paused /\ o.base_time # n.base_time)
        pause == o.stopped = n.stopped /\ o.uri = n.uri /\ o.paused # n.paused
    IN /\ reset =>
            CommandSeq("ctl") =
              <<<<"set_state", "NULL">>>> \o
              (IF n.stopped THEN <<<<"set_state", "NULL">>>>
               ELSE <<<<"set_state", "PAUSED">>>> \o
                    (IF n.paused THEN <<>> ELSE UnpauseSeq))
       /\ pause =>
            CommandSeq("ctl") =
              IF n.paused THEN <<<<"set_state", "PAUSED">>>> ELSE UnpauseSeq

\* a change of uri on a playing stream went through NULL, PAUSED, base time
\* and PLAYING
C14_Witness ==
  /\ Applied
  /\ old_info.uri # info.uri
  /\ ~old_info.stopped /\ ~info.stopped /\ ~info.paused
  /\ CommandSeq("ctl") =
       <<<<"set_state", "NULL">>, <<"set_state", "PAUSED">>>> \o UnpauseSeq

\* the bus watch takes a STATE_CHANGED message in this step
StateChangedTaken ==
  pc["watch"] = "idle" /\ pc'["watch"] # "idle" /\ msg'.type = "STATE_CHANGED"

\* C15: lines 178-179 store seek_offset = 0 and, when set_state(PAUSED)
\* returned NO_PREROLL, seek_state = DONE_SEEK, for any other successful
\* return NEED_SEEK; and from there until update_pipeline runs again every
\* STATE_CHANGED message the bus watch takes breaks at once, so that no
\* message taken in a live pipeline's run leads to a seek.
C15_LiveNeverSeeks ==
  [][/\ \A c \in {"ctl", "watch"} :
          (pc[c] = "up_seek" /\ pc'[c] = "up_play")
            => /\ seek_offset' = 0
               /\ is_live[c] = {TRUE} => seek_state' = DONE_SEEK
               /\ is_live[c] = {FALSE} => seek_state' = NEED_SEEK
     /\ (cycle # NoCycle /\ cycle.live /\ StateChangedTaken)
          => /\ pc'["watch"] = "done"
             /\ UNCHANGED <<seek_state, seek_offset, base_time, issued>>]_vars

\* in a live pipeline's run, playing, the pipeline's PAUSED -> PLAYING message
\* has been taken and ignored
C15_Witness ==
  /\ cycle # NoCycle /\ cycle.live /\ cycle.seeks = 0
  /\ pc = [ctl |-> "idle", watch |-> "done", stream |-> "idle"]
  /\ msg = [type |-> "STATE_CHANGED", src |-> "pipeline",
            old |-> "PAUSED", new |-> "PLAYING"]
  /\ pipeline_state = "PLAYING"
  /\ seek_state = DONE_SEEK
  /\ issued["watch"] = <<>>

\* the seeks of a sequence of calls that returned FALSE
FailedSeeks(calls) ==
  {i \in CallsOf(calls, "seek_simple") : calls[i].str = "failed"}

\* C16: when gst_element_seek_simple returns FALSE in the STATE_CHANGED case,
\* that step stores DONE_SEEK, leaves seek_offset and the base time as they
\* were, makes no second seek, and releases info_lock, so that
\* update_sync_info can apply the next sync info.
C16_SeekFailureHandled ==
  [][FailedSeeks(NewCalls("watch")) # {}
       => /\ seek_state' = DONE_SEEK
          /\ UNCHANGED <<seek_offset, base_time>>
          /\ Len(NewCalls("watch")) = 1
          /\ pc'["watch"] = "done"
          /\ info_lock' = "none"]_vars

\* after a seek failed, and before bus_cb returned, a sync info with a new
\* base time was applied through the full reset
C16_Witness ==
  /\ pc["watch"] = "done"
  /\ FailedSeeks(issued["watch"]) # {}
  /\ Applied
  /\ old_info.base_time # info.base_time
  /\ CommandSeq("ctl") =
       <<<<"set_state", "NULL">>, <<"set_state", "PAUSED">>>> \o UnpauseSeq
  /\ seek_state = NEED_SEEK

\* C17: when gst_element_query_position fails in the ASYNC_DONE case,
\* seek_offset keeps the value it had, set_base_time is not called, and the
\* handler goes on to store DONE_SEEK.
C17_QueryFailureKeepsOffset ==
  [][\A c \in {"watch", "stream"} :
       /\ (pc[c] = "query" /\ pc'[c] = "done_seek")
            => /\ UNCHANGED <<seek_offset, base_time>>
               /\ CallsOf(NewCalls(c), "set_base_time") = {}
       /\ (pc[c] = "done_seek" /\ pc'[c] # pc[c])
            => /\ seek_state' = DONE_SEEK
               /\ pc'[c] = "done"]_vars

\* context c is at a pipeline call that waits for the streaming thread:
\* set_state(NULL) at lines 354 / 371 and 156, the flushing seek at line 252
WaitsForStream(c) ==
  /\ ~StreamQuiescent
  /\ \/ pc[c] = "reset_null"
     \/ pc[c] = "up_begin" /\ info.stopped
     \/ pc[c] = "seek" /\ SeekNeeded(CurPos(now, info))
\* context c is at a g_mutex_lock of info_lock that another context holds
WaitsForLock(c) ==
  /\ pc[c] \in {"element_lock", "seek_lock", "base_time_lock"}
  /\ info_lock \notin {"none", c}

\* C18: no context waits for info_lock for ever: it never happens that the
\* context holding info_lock is inside a pipeline call that waits for the
\* streaming thread while the streaming thread, in the ASYNC_DONE case, waits
\* for info_lock.
C18_NoDeadlock ==
  ~ \E c \in {"ctl", "watch"} :
      /\ info_lock = c
      /\ WaitsForStream(c)
      /\ WaitsForLock("stream")

\* C19: between one run of update_pipeline and the next, the STATE_CHANGED
\* case of bus_cb calls gst_element_seek_simple at most once, whatever
\* messages the bus delivers and however the handlers interleave.
C19_OneSeekPerCycle ==
  cycle # NoCycle => cycle.seeks <= 1

\* C20: the seek of the STATE_CHANGED case never goes to a wrapped-around
\* position: when the clock time read at line 239 is below base_time +
\* base_time_offset of the sync info held, the handler calls no
\* gst_element_seek_simple and stores DONE_SEEK, and every seek the handler
\* makes has a target of at most that clock time.
C20_NoWrappedSeek ==
  [][(pc["watch"] = "seek" /\ pc'["watch"] # "seek")
       => LET seeks == CallsOf(NewCalls("watch"), "seek_simple")
          IN /\ now < info.base_time + info.base_time_offset
                  => /\ seeks = {}
                     /\ seek_state' = DONE_SEEK
             /\ \A i \in seeks : NewCalls("watch")[i].val <= now]_vars

\* C21: under fair scheduling of the handlers, and with ASYNC_DONE delivered
\* for the seeks the pipeline accepted, whenever seek_state is IN_SEEK it
\* later is DONE_SEEK, or NEED_SEEK again through a new run of
\* update_pipeline: seek_state never stays IN_SEEK for ever.
C21_SeekResolves ==
  (seek_state = IN_SEEK) ~> (seek_state # IN_SEEK)

=============================================================================
